---- MODULE Spec2Model ----
(***************************************************************************)
(* Sidecar lifecycle supervisor of the Maude desktop shell                 *)
(* (src-tauri/src/main.rs): port allocation, sidecar spawn, the output     *)
(* relay task, the health poll task and the window-destroyed handler.      *)
(*                                                                         *)
(* The code keeps no HealthState value: `health` is the monitor's reported *)
(* state, set where the task is created (pending), where it prints         *)
(* "server ready" (ready) and where it prints the failure (failed-timeout).*)
(* The tasks run until their code ends; process exit is not a step of the  *)
(* code and is not modelled.                                               *)
(***************************************************************************)
EXTENDS Integers, Sequences, FiniteSets

\* ---------------------------------------------------------------- bounds
NHandlers == 2     \* window-destroyed signals that may be delivered
MaxEvents == 2     \* events the child's channel carries in one run

\* ------------------------------------------------------ program constants
MaxAttempts == 60  \* for _ in 0..60

Handlers == 1..NHandlers

\* Port the OS hands out for 127.0.0.1:0.
Ports == {49152}

\* HTTP statuses the backend may answer /health with.
Statuses == {199, 200, 299, 300, 503}

\* A health request's outcome: Err (connect failure, timeout) or a response.
Responses == {[ok |-> FALSE, status |-> 0]} \cup {[ok |-> TRUE, status |-> s] : s \in Statuses}

\* Lines the child may write: "hé" (valid UTF-8) and "h" + the byte 0xFF.
Lines == {<<104, 195, 169>>, <<104, 255>>}

\* CommandEvent values received on rx.
Events ==
    {[type |-> t, line |-> l] : t \in {"Stdout", "Stderr"}, l \in Lines}
    \cup {[type |-> t, line |-> <<>>] : t \in {"Terminated", "Error"}}

VARIABLES
    mainPc,     \* position of main / the setup closure
    fatal,      \* why startup aborted: "none", "port", "window", "spawn"
    listener,   \* the TcpListener: "none", "bound", "released"
    port,       \* sidecar_port (0 before allocation)
    window,     \* the "main" webview window: "none", "open", "destroyed"
    mainChild,  \* setup holds the CommandChild returned by spawn()
    slot,       \* SidecarState.child: "Uninitialized", "Holding", "Terminated"
    lockHolder, \* holder of the SidecarState mutex (0: free)
    hpc,        \* per window-destroyed handler: its position
    sigHeld,    \* per handler: the slot held a handle when its signal arrived
    sigKills,   \* per handler: kill requests issued before its signal arrived
    kills,      \* kill requests issued to the child
    killErrs,   \* kill requests that returned Err
    rpc,        \* output relay task: "off", "recv", "done"
    sent,       \* events the child has put on the channel, in arrival order
    head,       \* number of events the relay has received
    closed,     \* all senders of the channel are dropped
    info,       \* lines the relay wrote with println!
    error,      \* lines the relay wrote with eprintln!
    mpc,        \* health poll task: "off", "sleep", "await", "exhausted",
                \*   "lookup", "eval", "done"
    attempt,    \* iteration of the poll loop (1..MaxAttempts)
    requests,   \* health requests issued
    okPolls,    \* polls answered with a success status
    failedPolls,\* polls that failed or were answered with another status
    health,     \* "none", "pending", "ready", "failed-timeout"
    readyWindow,\* state of the window when ready was reached
    lookup,     \* result of get_webview_window: "none", "found", "missing"
    navs,       \* window.eval navigation requests issued
    navPort     \* port of the URL navigated to

mainVars == <<mainPc, fatal, listener, port, mainChild>>
ownerVars == <<slot, lockHolder, hpc, sigHeld, sigKills, kills, killErrs>>
relayVars == <<rpc, sent, head, closed, info, error>>
monitorVars == <<mpc, attempt, requests, okPolls, failedPolls, health,
                 readyWindow, lookup, navs, navPort>>
vars == <<mainPc, fatal, listener, port, window, mainChild,
          slot, lockHolder, hpc, sigHeld, sigKills, kills, killErrs,
          rpc, sent, head, closed, info, error,
          mpc, attempt, requests, okPolls, failedPolls, health,
          readyWindow, lookup, navs, navPort>>

Init ==
    /\ mainPc = "bind"
    /\ fatal = "none"
    /\ listener = "none"
    /\ port = 0
    /\ window = "none"
    /\ mainChild = FALSE
    /\ slot = "Uninitialized"
    /\ lockHolder = 0
    /\ hpc = [h \in Handlers |-> "idle"]
    /\ sigHeld = [h \in Handlers |-> FALSE]
    /\ sigKills = [h \in Handlers |-> 0]
    /\ kills = 0
    /\ killErrs = 0
    /\ rpc = "off"
    /\ sent = <<>>
    /\ head = 0
    /\ closed = FALSE
    /\ info = <<>>
    /\ error = <<>>
    /\ mpc = "off"
    /\ attempt = 0
    /\ requests = 0
    /\ okPolls = 0
    /\ failedPolls = 0
    /\ health = "none"
    /\ readyWindow = "none"
    /\ lookup = "none"
    /\ navs = 0
    /\ navPort = 0

\* ------------------------------------------------------------- startup

\* TcpListener::bind("127.0.0.1:0").expect(..); local_addr().unwrap().port()
BindListener ==
    /\ mainPc = "bind"
    /\ \/ \E p \in Ports :
            /\ listener' = "bound"
            /\ port' = p
            /\ mainPc' = "drop"
            /\ fatal' = fatal
       \/ /\ mainPc' = "aborted"
          /\ fatal' = "port"
          /\ UNCHANGED <<listener, port>>
    /\ UNCHANGED <<window, mainChild, ownerVars, relayVars, monitorVars>>

\* drop(listener) releases the port before anything is spawned.
DropListenerForgotten ==
    /\ mainPc = "drop"
    /\ mainPc' = "build_window"
    /\ UNCHANGED <<fatal, listener, port, window, mainChild, ownerVars, relayVars,
                   monitorVars>>

\* drop(listener)
DropListener ==
    /\ mainPc = "drop"
    /\ listener' = "released"
    /\ mainPc' = "build_window"
    /\ UNCHANGED <<fatal, port, window, mainChild, ownerVars, relayVars, monitorVars>>

\* WebviewWindowBuilder::new(app, "main", ..).build()?
BuildWindow ==
    /\ mainPc = "build_window"
    /\ \/ /\ window' = "open"
          /\ mainPc' = "spawn"
          /\ fatal' = fatal
       \/ /\ mainPc' = "aborted"
          /\ fatal' = "window"
          /\ window' = window
    /\ UNCHANGED <<listener, port, mainChild, ownerVars, relayVars, monitorVars>>

\* Where setup goes after shell.sidecar(..).expect(..) ... .spawn().expect(..):
\* both expects panic on Err.
AfterSpawnIgnoringErr(ok) == "manage"
AfterSpawn(ok) == IF ok THEN "manage" ELSE "aborted"

\* shell.sidecar("maude-server") ... .spawn()
SpawnSidecar ==
    /\ mainPc = "spawn"
    /\ \E ok \in BOOLEAN :
          /\ mainPc' = AfterSpawn(ok)
          /\ mainChild' = ok
          /\ fatal' = IF ok THEN fatal ELSE "spawn"
    /\ UNCHANGED <<listener, port, window, ownerVars, relayVars, monitorVars>>

\* app.manage(SidecarState { child: Mutex::new(Some(child)) })
ManageState ==
    /\ mainPc = "manage"
    /\ slot' = "Holding"
    /\ mainChild' = FALSE
    /\ mainPc' = "spawn_relay"
    /\ UNCHANGED <<fatal, listener, port, window, lockHolder, hpc, sigHeld,
                   sigKills, kills, killErrs, relayVars, monitorVars>>

\* tauri::async_runtime::spawn(async move { while let Some(event) = rx.recv() .. })
SpawnRelay ==
    /\ mainPc = "spawn_relay"
    /\ rpc' = "recv"
    /\ mainPc' = "spawn_monitor"
    /\ UNCHANGED <<fatal, listener, port, window, mainChild, ownerVars,
                   sent, head, closed, info, error, monitorVars>>

\* tauri::async_runtime::spawn(async move { .. for _ in 0..60 .. }); Ok(())
SpawnMonitor ==
    /\ mainPc = "spawn_monitor"
    /\ mpc' = IF 0 < MaxAttempts THEN "sleep" ELSE "exhausted"
    /\ attempt' = IF 0 < MaxAttempts THEN 1 ELSE 0
    /\ health' = "pending"
    /\ mainPc' = "running"
    /\ UNCHANGED <<fatal, listener, port, window, mainChild, ownerVars, relayVars,
                   requests, okPolls, failedPolls, readyWindow, lookup, navs, navPort>>

\* ------------------------------------------------- window-destroyed handler

\* Option::take on the slot: the handle moves out and None is left behind.
TakeLeavingHandle(s) == s
TakeSlot(s) == IF s = "Holding" THEN "Terminated" ELSE s

\* A WindowEvent::Destroyed is delivered to on_window_event.  The event loop
\* delivers window events only once setup has returned.
WindowDestroyed(h) ==
    /\ mainPc = "running"
    /\ hpc[h] = "idle"
    /\ window' = "destroyed"
    /\ sigHeld' = [sigHeld EXCEPT ![h] = (slot = "Holding")]
    /\ sigKills' = [sigKills EXCEPT ![h] = kills]
    \* window.try_state::<SidecarState>() is None while nothing is managed
    /\ hpc' = [hpc EXCEPT ![h] = IF slot = "Uninitialized" THEN "done" ELSE "lock"]
    /\ UNCHANGED <<mainVars, slot, lockHolder, kills, killErrs, relayVars, monitorVars>>

\* state.child.lock(): blocks while another handler holds the guard.  No code
\* panics while holding the guard, so the mutex is never poisoned (Ok always).
HandlerLock(h) ==
    /\ hpc[h] = "lock"
    /\ lockHolder = 0
    /\ lockHolder' = h
    /\ hpc' = [hpc EXCEPT ![h] = "take"]
    /\ UNCHANGED <<mainVars, window, slot, sigHeld, sigKills, kills, killErrs,
                   relayVars, monitorVars>>

\* if let Some(child) = guard.take(); without a handle the guard is dropped.
HandlerTake(h) ==
    /\ hpc[h] = "take"
    /\ lockHolder = h
    /\ slot' = TakeSlot(slot)
    /\ IF slot = "Holding"
          THEN /\ hpc' = [hpc EXCEPT ![h] = "kill"]
               /\ lockHolder' = lockHolder
          ELSE /\ hpc' = [hpc EXCEPT ![h] = "done"]
               /\ lockHolder' = 0
    /\ UNCHANGED <<mainVars, window, sigHeld, sigKills, kills, killErrs,
                   relayVars, monitorVars>>

\* child.kill() issues one kill request
KillSkipped(k) == k
KillIssued(k) == k + 1

\* child.kill() whose Err puts the handle back into the slot for a later try
HandlerKillRestoring(h) ==
    /\ hpc[h] = "kill"
    /\ lockHolder = h
    /\ kills' = KillIssued(kills)
    /\ \E failed \in BOOLEAN :
          /\ killErrs' = IF failed THEN killErrs + 1 ELSE killErrs
          /\ slot' = IF failed THEN "Holding" ELSE slot
    /\ hpc' = [hpc EXCEPT ![h] = "done"]
    /\ lockHolder' = 0
    /\ UNCHANGED <<mainVars, window, sigHeld, sigKills, relayVars, monitorVars>>

\* let _ = child.kill(); the Result is discarded and the guard dropped.
HandlerKill(h) ==
    /\ hpc[h] = "kill"
    /\ lockHolder = h
    /\ kills' = KillIssued(kills)
    /\ \E failed \in BOOLEAN : killErrs' = IF failed THEN killErrs + 1 ELSE killErrs
    /\ hpc' = [hpc EXCEPT ![h] = "done"]
    /\ lockHolder' = 0
    /\ UNCHANGED <<mainVars, window, slot, sigHeld, sigKills, relayVars, monitorVars>>

\* ------------------------------------------------------------ health monitor

\* resp.status().is_success(): 200..=299
IsSuccessAnyResponse(r) == r.ok
IsSuccessUpTo300(r) == r.ok /\ r.status >= 200 /\ r.status <= 300
IsSuccess(r) == r.ok /\ r.status >= 200 /\ r.status < 300

\* for _ in 0..60: another iteration follows iteration i while i < 60
LoopContinuesOnceMore(i) == i <= MaxAttempts
LoopContinues(i) == i < MaxAttempts

\* app_handle.get_webview_window("main"): Some while the window exists
WindowFoundAlways(w) == TRUE
WindowFound(w) == w = "open"

\* a probe that is issued without being awaited: the loop goes on to its next tick
MonitorSendNotAwaited ==
    /\ mpc = "sleep"
    /\ requests' = requests + 1
    /\ IF LoopContinues(attempt)
          THEN attempt' = attempt + 1 /\ mpc' = "sleep"
          ELSE attempt' = attempt /\ mpc' = "exhausted"
    /\ UNCHANGED <<mainVars, window, ownerVars, relayVars, okPolls,
                   failedPolls, health, readyWindow, lookup, navs, navPort>>

\* a poll loop that is cancelled once the window is gone
MonitorSendCancelled ==
    /\ mpc = "sleep"
    /\ requests' = IF WindowFound(window) THEN requests + 1 ELSE requests
    /\ mpc' = IF WindowFound(window) THEN "await" ELSE "done"
    /\ UNCHANGED <<mainVars, window, ownerVars, relayVars, attempt, okPolls,
                   failedPolls, health, readyWindow, lookup, navs, navPort>>

\* tokio::time::sleep(250ms) is over; client.get(&health_url).send() is issued
MonitorSend ==
    /\ mpc = "sleep"
    /\ requests' = requests + 1
    /\ mpc' = "await"
    /\ UNCHANGED <<mainVars, window, ownerVars, relayVars, attempt, okPolls,
                   failedPolls, health, readyWindow, lookup, navs, navPort>>

\* What the backend answered: a 2xx response, or anything else.
Is2xx(r) == r.ok /\ r.status \in 200..299

\* On a success status println!("[maude] server ready ..") is reached and the
\* task is on its way to return; otherwise the next iteration starts, if any.
PollOutcomeWithoutReturn(r) ==
    /\ health' = IF IsSuccess(r) THEN "ready" ELSE health
    /\ readyWindow' = IF IsSuccess(r) THEN window ELSE readyWindow
    /\ IF LoopContinues(attempt)
          THEN /\ attempt' = attempt + 1
               /\ mpc' = "sleep"
          ELSE /\ attempt' = attempt
               /\ mpc' = IF IsSuccess(r) THEN "lookup" ELSE "exhausted"
PollOutcome(r) ==
    IF IsSuccess(r)
      THEN /\ health' = "ready"
           /\ readyWindow' = window
           /\ mpc' = "lookup"
           /\ attempt' = attempt
      ELSE /\ IF LoopContinues(attempt)
                 THEN /\ attempt' = attempt + 1
                      /\ mpc' = "sleep"
                 ELSE /\ attempt' = attempt
                      /\ mpc' = "exhausted"
           /\ UNCHANGED <<health, readyWindow>>

\* the request completes: if let Ok(resp) = .. { if resp.status().is_success() {
MonitorResponse ==
    /\ mpc = "await"
    /\ \E r \in Responses :
          /\ okPolls' = IF Is2xx(r) THEN okPolls + 1 ELSE okPolls
          /\ failedPolls' = IF Is2xx(r) THEN failedPolls ELSE failedPolls + 1
          /\ PollOutcome(r)
    /\ UNCHANGED <<mainVars, window, ownerVars, relayVars, requests, lookup,
                   navs, navPort>>

\* the loop is over and the timeout is treated as fatal: the child is killed
MonitorTimeoutFatal ==
    /\ mpc = "exhausted"
    /\ health' = "failed-timeout"
    /\ mpc' = "done"
    /\ slot' = TakeSlot(slot)
    /\ kills' = IF slot = "Holding" THEN KillIssued(kills) ELSE kills
    /\ UNCHANGED <<mainVars, window, lockHolder, hpc, sigHeld, sigKills, killErrs,
                   relayVars, attempt, requests, okPolls, failedPolls,
                   readyWindow, lookup, navs, navPort>>

\* the loop is over: eprintln!("[maude] server failed to start within 15 seconds")
MonitorTimeout ==
    /\ mpc = "exhausted"
    /\ health' = "failed-timeout"
    /\ mpc' = "done"
    /\ UNCHANGED <<mainVars, window, ownerVars, relayVars, attempt, requests,
                   okPolls, failedPolls, readyWindow, lookup, navs, navPort>>

\* a lookup that waits for the window instead of giving up without one
MonitorLookupWaiting ==
    /\ mpc = "lookup"
    /\ lookup' = IF WindowFound(window) THEN "found" ELSE lookup
    /\ mpc' = IF WindowFound(window) THEN "eval" ELSE mpc
    /\ UNCHANGED <<mainVars, window, ownerVars, relayVars, attempt, requests,
                   okPolls, failedPolls, health, readyWindow, navs, navPort>>

\* if let Some(window) = app_handle.get_webview_window("main")
MonitorLookup ==
    /\ mpc = "lookup"
    /\ lookup' = IF WindowFound(window) THEN "found" ELSE "missing"
    /\ mpc' = IF WindowFound(window) THEN "eval" ELSE "done"
    /\ UNCHANGED <<mainVars, window, ownerVars, relayVars, attempt, requests,
                   okPolls, failedPolls, health, readyWindow, navs, navPort>>

\* let _ = window.eval("window.location.href = 'http://localhost:{port}/';");
\* return
MonitorEval ==
    /\ mpc = "eval"
    /\ navs' = navs + 1
    /\ navPort' = port
    /\ mpc' = "done"
    /\ UNCHANGED <<mainVars, window, ownerVars, relayVars, attempt, requests,
                   okPolls, failedPolls, health, readyWindow, lookup>>

\* --------------------------------------------------------------- the child

\* setup has the child and its event channel from the spawn on
Spawned == mainPc \in {"manage", "spawn_relay", "spawn_monitor", "running"}

\* The child (its reader and wait threads) puts an event on the channel.
ChildEmit(e) ==
    /\ Spawned
    /\ ~closed
    /\ Len(sent) < MaxEvents
    /\ sent' = Append(sent, e)
    /\ UNCHANGED <<mainVars, window, ownerVars, rpc, head, closed, info, error,
                   monitorVars>>

\* The last sender of the channel is dropped: rx.recv() yields None once drained.
ChannelClose ==
    /\ Spawned
    /\ ~closed
    /\ closed' = TRUE
    /\ UNCHANGED <<mainVars, window, ownerVars, rpc, sent, head, info, error,
                   monitorVars>>

\* -------------------------------------------------------------- output relay

\* U+FFFD REPLACEMENT CHARACTER in UTF-8
Replacement == <<239, 191, 189>>

IsCont(b) == b >= 128 /\ b <= 191

\* Byte at position i of s, or -1 past the end.
ByteAt(s, i) == IF i <= Len(s) THEN s[i] ELSE -1

\* Range the second byte of a multi-byte sequence must lie in, by lead byte.
SecondOk(b1, b2) ==
    IF b1 = 224 THEN b2 >= 160 /\ b2 <= 191
    ELSE IF b1 = 237 THEN b2 >= 128 /\ b2 <= 159
    ELSE IF b1 = 240 THEN b2 >= 144 /\ b2 <= 191
    ELSE IF b1 = 244 THEN b2 >= 128 /\ b2 <= 143
    ELSE IsCont(b2)

\* Width of the sequence a lead byte announces (0: not a lead byte).
Utf8Width(b) ==
    IF b < 128 THEN 1
    ELSE IF b >= 194 /\ b <= 223 THEN 2
    ELSE IF b >= 224 /\ b <= 239 THEN 3
    ELSE IF b >= 240 /\ b <= 244 THEN 4
    ELSE 0

\* The chunk starting at s[i]: [valid, len]; an invalid chunk is the maximal
\* prefix of a well-formed sequence (at least one byte).
Utf8Chunk(s, i) ==
    LET w == Utf8Width(s[i]) IN
    IF w = 1 THEN [valid |-> TRUE, len |-> 1]
    ELSE IF w = 0 THEN [valid |-> FALSE, len |-> 1]
    ELSE IF ~(ByteAt(s, i + 1) >= 0 /\ SecondOk(s[i], ByteAt(s, i + 1)))
      THEN [valid |-> FALSE, len |-> 1]
    ELSE IF w = 2 THEN [valid |-> TRUE, len |-> 2]
    ELSE IF ~IsCont(ByteAt(s, i + 2)) THEN [valid |-> FALSE, len |-> 2]
    ELSE IF w = 3 THEN [valid |-> TRUE, len |-> 3]
    ELSE IF ~IsCont(ByteAt(s, i + 3)) THEN [valid |-> FALSE, len |-> 3]
    ELSE [valid |-> TRUE, len |-> 4]

RECURSIVE LossyFrom(_, _)
LossyFrom(s, i) ==
    IF i > Len(s) THEN <<>>
    ELSE LET c == Utf8Chunk(s, i) IN
         (IF c.valid THEN SubSeq(s, i, i + c.len - 1) ELSE Replacement)
            \o LossyFrom(s, i + c.len)

\* String::from_utf8_lossy(&line): the bytes of the resulting string
Utf8Lossy(s) == LossyFrom(s, 1)

\* The line println!/eprintln! writes for "[maude-server] {}"
ServerLine(text) == [prefix |-> "[maude-server] ", kind |-> "line", text |-> text]

\* The line eprintln! writes for a Terminated or Error event
ServerNote(kind) == [prefix |-> "[maude-server] ", kind |-> kind, text |-> <<>>]

\* Which sink a line event goes to: Stdout -> println!, Stderr -> eprintln!
SinkOf(e) == IF e.type = "Stdout" THEN "info" ELSE "error"

\* Terminated and Error break out of the loop.
BreaksNever(e) == FALSE
Breaks(e) == e.type \in {"Terminated", "Error"}

\* a relay that drops the stored handle when the child reports its end
RelayRecvDroppingHandle ==
    /\ rpc = "recv"
    /\ head < Len(sent)
    /\ LET e == sent[head + 1] IN
         /\ head' = head + 1
         /\ IF e.type \in {"Stdout", "Stderr"}
               THEN /\ info' = IF SinkOf(e) = "info"
                                  THEN Append(info, ServerLine(Utf8Lossy(e.line)))
                                  ELSE info
                    /\ error' = IF SinkOf(e) = "error"
                                   THEN Append(error, ServerLine(Utf8Lossy(e.line)))
                                   ELSE error
                    /\ slot' = slot
               ELSE /\ error' = Append(error,
                                       ServerNote(IF e.type = "Terminated"
                                                    THEN "terminated" ELSE "error"))
                    /\ info' = info
                    /\ slot' = TakeSlot(slot)
         /\ rpc' = IF Breaks(e) THEN "done" ELSE "recv"
    /\ UNCHANGED <<mainVars, window, lockHolder, hpc, sigHeld, sigKills, kills,
                   killErrs, sent, closed, monitorVars>>

\* One iteration of while let Some(event) = rx.recv().await { match event .. }
RelayRecv ==
    /\ rpc = "recv"
    /\ head < Len(sent)
    /\ LET e == sent[head + 1] IN
         /\ head' = head + 1
         /\ IF e.type \in {"Stdout", "Stderr"}
               THEN /\ info' = IF SinkOf(e) = "info"
                                  THEN Append(info, ServerLine(Utf8Lossy(e.line)))
                                  ELSE info
                    /\ error' = IF SinkOf(e) = "error"
                                   THEN Append(error, ServerLine(Utf8Lossy(e.line)))
                                   ELSE error
               ELSE /\ error' = Append(error,
                                       ServerNote(IF e.type = "Terminated"
                                                    THEN "terminated" ELSE "error"))
                    /\ info' = info
         /\ rpc' = IF Breaks(e) THEN "done" ELSE "recv"
    /\ UNCHANGED <<mainVars, window, ownerVars, sent, closed, monitorVars>>

\* rx.recv() yields None: the channel is drained and closed, the loop ends.
RelayEnd ==
    /\ rpc = "recv"
    /\ head = Len(sent)
    /\ closed
    /\ rpc' = "done"
    /\ UNCHANGED <<mainVars, window, ownerVars, sent, head, closed, info, error,
                   monitorVars>>

\* ------------------------------------------------------------ specifications

Startup ==
    \/ BindListener
    \/ DropListener
    \/ BuildWindow
    \/ SpawnSidecar
    \/ ManageState
    \/ SpawnRelay
    \/ SpawnMonitor

Owner == \E h \in Handlers : WindowDestroyed(h) \/ HandlerLock(h) \/ HandlerTake(h) \/ HandlerKill(h)

Monitor == MonitorSend \/ MonitorResponse \/ MonitorTimeout \/ MonitorLookup \/ MonitorEval

Relay == (\E e \in Events : ChildEmit(e)) \/ ChannelClose \/ RelayRecv \/ RelayEnd

\* The whole program.
Next == Startup \/ Owner \/ Monitor \/ Relay

Spec == Init /\ [][Next]_vars

\* Startup, the window-destroyed handlers and the health monitor: the relay
\* task and the child's channel share no state with them.
NextLifecycle == Startup \/ Owner \/ Monitor

SpecLifecycle == Init /\ [][NextLifecycle]_vars

\* Startup, the child's channel and the output relay.
NextRelay == Startup \/ Relay

SpecRelay == Init /\ [][NextRelay]_vars

\* The async runtime keeps scheduling the health poll task: its timer fires,
\* its straight-line code runs on, and every request it awaits completes, with
\* a response or with an error.  (reqwest::Client::new() sets no request
\* timeout: a request that never completes is outside this assumption.)
MonitorFairness ==
    /\ WF_vars(MonitorSend)
    /\ WF_vars(MonitorResponse)
    /\ WF_vars(MonitorTimeout)
    /\ WF_vars(MonitorLookup)
    /\ WF_vars(MonitorEval)

FairLifecycle == Init /\ [][NextLifecycle]_vars /\ MonitorFairness

\* Startup and the two tasks it starts, with the child's channel.
NextTasks == Startup \/ Monitor \/ Relay

SpecTasks == Init /\ [][NextTasks]_vars

\* ------------------------------------------------------------------ claims

AllHandled == \A h \in Handlers : hpc[h] = "done"

\* Handles to the child that exist: the one setup holds between spawn and
\* manage, the one in the slot, and the ones handlers have taken and not killed.
LiveHandles ==
    (IF mainChild THEN 1 ELSE 0)
    + (IF slot = "Holding" THEN 1 ELSE 0)
    + Cardinality({h \in Handlers : hpc[h] = "kill"})

\* C1: however many window-destroyed signals are handled, in whatever
\* interleaving, exactly one kill request is issued: never more than one, a
\* handler is about to kill only while none has been issued, and as soon as one
\* handler has finished the one kill has happened.
C1_ExactlyOneKill ==
    /\ kills + Cardinality({h \in Handlers : hpc[h] = "kill"}) <= 1
    /\ (\E h \in Handlers : hpc[h] = "done") => kills = 1

C1_Witness == AllHandled /\ kills = 1

\* C2: the monitor issues no request after reaching ready: in ready it has
\* seen exactly one 2xx answer, the one to its last request, request k after
\* k-1 failed polls with k <= max_attempts, it is past the loop, and the count
\* of requests never changes again.
C2_NoRequestAfterReady ==
    /\ [](health = "ready" =>
            /\ okPolls = 1
            /\ requests = failedPolls + 1
            /\ requests <= MaxAttempts
            /\ mpc \in {"lookup", "eval", "done"})
    /\ [][health = "ready" => requests' = requests /\ health' = "ready"]_vars

C2_Witness == health = "ready" /\ mpc = "done" /\ requests = 5 /\ failedPolls = 4

\* C3: failed-timeout is reported after exactly max_attempts unsuccessful
\* polls: never with fewer, never with a success among them, and no request
\* beyond the max_attempts-th is ever issued.
C3_TimeoutAfterExactlyMax ==
    /\ requests <= MaxAttempts
    /\ mpc \in {"exhausted"} \/ health = "failed-timeout" =>
          /\ failedPolls = MaxAttempts
          /\ requests = MaxAttempts
          /\ okPolls = 0
    /\ failedPolls = MaxAttempts => mpc \in {"exhausted", "done"}

C3_Witness == health = "failed-timeout" /\ requests = MaxAttempts

\* C4: the navigation happens at most once and only after a poll was
\* answered with a success status; without a successful poll there is none.
C4_NavigationOnceAfterSuccess ==
    /\ navs <= 1
    /\ navs >= 1 \/ mpc \in {"lookup", "eval"} => okPolls >= 1
    /\ health = "failed-timeout" => navs = 0 /\ okPolls = 0

C4_Witness == navs = 1 /\ okPolls = 1 /\ mpc = "done"

\* C5 as claimed: every transition to ready is followed by exactly one
\* navigation, whatever the state of the window.
C5_Original == (health = "ready" /\ mpc = "done") => navs = 1

\* C5 as amended: on reaching ready the monitor looks the main window up and
\* issues exactly one navigation, to the allocated port, if the window still
\* exists at that lookup, and none if it has been destroyed.
C5_NavigationIfWindowExists ==
    /\ (health = "ready" /\ mpc = "done") =>
          /\ lookup \in {"found", "missing"}
          /\ navs = IF lookup = "found" THEN 1 ELSE 0
          /\ readyWindow = "destroyed" => navs = 0
          /\ window = "open" => navs = 1
    /\ navs >= 1 => navPort = port /\ port \in Ports
    /\ lookup = "missing" => window = "destroyed"

C5_Witness == health = "ready" /\ mpc = "done" /\ lookup = "missing" /\ navs = 0

\* C6: a handler whose signal arrived while the slot held a handle finishes
\* with a kill request issued since that signal and with the slot empty; no
\* kill is ever issued while the slot still holds the handle.
C6_DestroyKillsChild ==
    /\ \A h \in Handlers :
          (hpc[h] = "done" /\ sigHeld[h]) =>
              /\ kills > sigKills[h]
              /\ slot = "Terminated"
    /\ slot = "Holding" => kills = 0

C6_Witness ==
    /\ AllHandled
    /\ \A h \in Handlers : sigHeld[h]

\* C7: the slot goes Uninitialized -> Holding -> Terminated only: to Holding
\* only in the manage step that follows a successful spawn, to Terminated
\* only in a handler's take, never back; at most one live handle exists.
C7_OwnerStateMachine ==
    /\ [](LiveHandles <= 1)
    /\ [][slot' # slot =>
            \/ /\ slot = "Uninitialized"
               /\ slot' = "Holding"
               /\ mainPc = "manage"
               /\ mainChild
               /\ fatal = "none"
            \/ /\ slot = "Holding"
               /\ slot' = "Terminated"
               /\ \E h \in Handlers : hpc[h] = "take" /\ hpc'[h] = "kill"]_vars

C7_Witness == slot = "Terminated" /\ kills = 1 /\ LiveHandles = 0

\* C8: HealthState is pending from the creation of the monitor task, changes
\* at most once, from pending to ready or to failed-timeout, and never again.
C8_HealthChangesOnce ==
    /\ [](mpc # "off" <=> health # "none")
    /\ [][health' # health =>
            \/ /\ health = "none"
               /\ health' = "pending"
               /\ mainPc = "spawn_monitor"
            \/ /\ health = "pending"
               /\ health' \in {"ready", "failed-timeout"}]_vars

C8_Witness == health = "failed-timeout" /\ mpc = "done"

\* C9: when spawning the sidecar fails, startup is aborted and stays so:
\* neither task is started, no handle is stored, no health request and no
\* navigation is issued, nothing is read from the child.
C9_SpawnFailureIsFatal ==
    fatal = "spawn" =>
        /\ mainPc = "aborted"
        /\ rpc = "off"
        /\ mpc = "off"
        /\ health = "none"
        /\ slot = "Uninitialized"
        /\ ~mainChild
        /\ requests = 0
        /\ navs = 0
        /\ head = 0

C9_Witness == fatal = "spawn" /\ mainPc = "aborted" /\ window = "open"

\* Index of the first Terminated or Error event of evs, or Len(evs) if none.
RECURSIVE FirstBreakFrom(_, _)
FirstBreakFrom(evs, i) ==
    IF i > Len(evs) THEN Len(evs)
    ELSE IF evs[i].type \in {"Terminated", "Error"} THEN i
    ELSE FirstBreakFrom(evs, i + 1)

FirstBreak(evs) == FirstBreakFrom(evs, 1)

\* The events the relay has received so far, in arrival order.
Received == SubSeq(sent, 1, head)

IsStdout(e) == e.type = "Stdout"
IsStderr(e) == e.type = "Stderr"
IsLineRecord(r) == r.kind = "line"

\* The lines of a sequence of line events / of a sink, in order.
LinesOf(evs) == [i \in 1..Len(evs) |-> evs[i].line]
TextsOf(sink) == LET ls == SelectSeq(sink, IsLineRecord) IN [i \in 1..Len(ls) |-> ls[i].text]

\* What a line of Lines reads as once invalid UTF-8 is replaced by U+FFFD.
Readable(l) == IF l = <<104, 255>> THEN <<104, 239, 191, 189>> ELSE l
ReadableOf(evs) == [i \in 1..Len(evs) |-> Readable(evs[i].line)]

\* C10 as claimed: the sinks hold the received stdout and stderr lines, in
\* arrival order and with content unchanged.
C10_Original ==
    /\ TextsOf(info) = LinesOf(SelectSeq(Received, IsStdout))
    /\ TextsOf(error) = LinesOf(SelectSeq(Received, IsStderr))

\* C10 as amended: the relay forwards each stdout line to the info sink and
\* each stderr line to the error sink, in arrival order, behind the
\* "[maude-server] " prefix, unchanged when the line is valid UTF-8 and with
\* every invalid byte sequence replaced by U+FFFD otherwise, for exactly the
\* events before the first Terminated or Error event; it logs that event to the
\* error sink, ends, and receives and forwards nothing more.
C10_RelayForwardsLossy ==
    /\ head <= FirstBreak(sent)
    /\ TextsOf(info) = ReadableOf(SelectSeq(Received, IsStdout))
    /\ TextsOf(error) = ReadableOf(SelectSeq(Received, IsStderr))
    /\ Len(info) = Len(SelectSeq(Received, IsStdout))
    /\ \A i \in 1..Len(info) : info[i].prefix = "[maude-server] "
    /\ \A i \in 1..Len(error) : error[i].prefix = "[maude-server] "
    /\ Len(error) - Len(TextsOf(error)) =
          (IF head >= 1 /\ Received[head].type \in {"Terminated", "Error"} THEN 1 ELSE 0)
    /\ (head >= 1 /\ Received[head].type \in {"Terminated", "Error"}) => rpc = "done"
    /\ rpc = "off" => head = 0

C10_Witness ==
    /\ rpc = "done"
    /\ head = 2
    /\ sent[1] = [type |-> "Stdout", line |-> <<104, 255>>]
    /\ sent[2].type = "Terminated"
    /\ TextsOf(info) = << <<104, 239, 191, 189>> >>

\* C11: startup is ordered: the listener is bound, its port read and the
\* listener released before the spawn is attempted; the handle is stored in the
\* slot before the relay task and the monitor task exist; nothing is put on or
\* read from the child's channel and no health request is issued before the
\* spawn has succeeded and the handle is stored.
C11_StartupOrder ==
    /\ (mainPc \in {"spawn", "manage", "spawn_relay", "spawn_monitor", "running"}
          \/ fatal = "spawn" \/ mainChild) =>
            listener = "released" /\ port \in Ports
    /\ (rpc # "off" \/ mpc # "off") =>
            slot # "Uninitialized" /\ ~mainChild /\ fatal = "none"
    /\ mpc # "off" => rpc # "off"
    /\ (requests > 0 \/ head > 0) => slot # "Uninitialized"
    /\ sent # <<>> => (mainChild \/ slot # "Uninitialized")

C11_Witness ==
    /\ mainPc = "running"
    /\ requests >= 1
    /\ head >= 1
    /\ listener = "released"
    /\ slot = "Holding"

\* C12: a poll that fails or is answered with a status outside 2xx consumes
\* one attempt and nothing else: HealthState stays pending, no window lookup
\* and no navigation happens, and the monitor goes to the next tick while
\* attempts remain (to the end of the loop after the last one); HealthState
\* becomes ready only in a step in which a 2xx answer arrives.
C12_FailedPollIsNotYetReady ==
    /\ [](requests = okPolls + failedPolls + (IF mpc = "await" THEN 1 ELSE 0))
    /\ [][failedPolls' # failedPolls =>
            /\ failedPolls' = failedPolls + 1
            /\ okPolls' = okPolls
            /\ health = "pending" /\ health' = "pending"
            /\ navs' = navs /\ lookup' = lookup /\ lookup = "none"
            /\ requests' = requests
            /\ IF failedPolls' < MaxAttempts
                  THEN mpc' = "sleep" /\ attempt' = attempt + 1
                  ELSE mpc' = "exhausted"]_vars
    /\ [][(health' = "ready" /\ health # "ready") =>
            okPolls' = okPolls + 1 /\ failedPolls' = failedPolls]_vars

C12_Witness ==
    /\ failedPolls = 2
    /\ requests = 2
    /\ attempt = 3
    /\ mpc = "sleep"
    /\ health = "pending"
    /\ navs = 0

NoSignal == \A h \in Handlers : hpc[h] = "idle"

\* The relay has ended for a reason of its own: a Terminated or Error event,
\* or the closed and drained channel.
RelayEndedByChannel ==
    \/ head >= 1 /\ sent[head].type \in {"Terminated", "Error"}
    \/ closed /\ head = Len(sent)

\* C13: reaching failed-timeout changes nothing but the report: the step
\* issues no kill and leaves the slot, the mutex, the handlers, the window, the
\* navigation state, the relay and its channel as they are; while no
\* window-destroyed signal has arrived the slot still holds the handle and the
\* window is open and un-navigated; the relay is stopped only by its own channel.
C13_TimeoutIsNonFatal ==
    /\ [][(health' = "failed-timeout" /\ health # "failed-timeout") =>
            UNCHANGED <<kills, killErrs, slot, lockHolder, hpc, window, navs,
                        navPort, lookup, rpc, sent, head, closed, info, error,
                        mainPc, fatal>>]_vars
    /\ []((health = "failed-timeout" /\ NoSignal) =>
            /\ kills = 0
            /\ slot = "Holding"
            /\ window = "open"
            /\ navs = 0
            /\ mainPc = "running")
    /\ []((health = "failed-timeout" /\ rpc = "done") => RelayEndedByChannel)

C13_Witness ==
    /\ health = "failed-timeout"
    /\ rpc = "recv"
    /\ head >= 1
    /\ slot = "Holding"
    /\ window = "open"
    /\ kills = 0

\* C14: a kill request that returns Err is swallowed: the step that issues it
\* ends the handler and releases the mutex like a successful one, the slot
\* stays empty, and no handler issues a second kill.
C14_KillErrorSwallowed ==
    /\ [](killErrs >= 1 =>
            /\ killErrs = 1
            /\ kills = 1
            /\ slot = "Terminated"
            /\ \A h \in Handlers : hpc[h] # "kill")
    /\ [][killErrs' # killErrs =>
            /\ lockHolder' = 0
            /\ slot' = "Terminated"
            /\ \E h \in Handlers :
                  /\ hpc[h] = "kill"
                  /\ hpc' = [hpc EXCEPT ![h] = "done"]]_vars

C14_Witness == killErrs = 1 /\ AllHandled /\ kills = 1 /\ slot = "Terminated"

InFlight == requests - (okPolls + failedPolls)

\* C16: polls are strictly sequential: at most one request is in flight, and
\* it is in flight exactly while the task awaits it; request n+1 is issued
\* only from the sleep of iteration n+1, with all n earlier requests completed,
\* and a completed request is followed by that sleep, never by a request.
C16_PollsAreSequential ==
    /\ [](InFlight \in {0, 1} /\ (InFlight = 1 <=> mpc = "await"))
    /\ [][requests' # requests =>
            /\ requests' = requests + 1
            /\ InFlight = 0
            /\ mpc = "sleep" /\ mpc' = "await"
            /\ attempt = requests + 1]_vars
    /\ [][(mpc = "await" /\ mpc' # "await") =>
            /\ requests' = requests
            /\ mpc' \in {"sleep", "lookup", "exhausted"}
            /\ mpc' = "sleep" => attempt' = attempt + 1]_vars

C16_Witness == requests = 3 /\ mpc = "await" /\ okPolls + failedPolls = 2

\* C17: the relay seeing the child's Terminated or Error event changes only
\* the relay: that step leaves the slot, the mutex, the handlers, the window,
\* startup and the monitor as they are and nothing is spawned again; without
\* a window-destroyed signal the slot still holds the handle; after the relay
\* has ended the monitor still issues requests and a window-destroyed handler
\* still locks, takes the handle and issues the one kill request.
C17_ChildExitChangesOnlyRelay ==
    /\ [][(rpc' = "done" /\ rpc # "done") =>
            UNCHANGED <<mainPc, fatal, listener, port, window, mainChild,
                        slot, lockHolder, hpc, sigHeld, sigKills, kills, killErrs,
                        sent, closed, monitorVars>>]_vars
    /\ []((rpc = "done" /\ NoSignal) => slot = "Holding" /\ kills = 0)
    /\ [](rpc = "done" => ~mainChild /\ mainPc \in {"spawn_monitor", "running"})
    /\ []((rpc = "done" /\ \E h \in Handlers : hpc[h] = "done") =>
            kills = 1 /\ slot = "Terminated")
    /\ [][rpc = "done" =>
            \A h \in Handlers :
               /\ (hpc[h] = "idle" /\ hpc'[h] # "idle") => hpc'[h] = "lock"
               /\ (hpc[h] = "take" /\ hpc'[h] # "take" /\ slot = "Holding") =>
                     hpc'[h] = "kill" /\ slot' = "Terminated"
               /\ (hpc[h] = "kill" /\ hpc'[h] # "kill") => kills' = kills + 1]_vars
    /\ [][(rpc = "done" /\ mpc = "sleep" /\ mpc' # "sleep") =>
            requests' = requests + 1]_vars

C17_Witness ==
    /\ rpc = "done"
    /\ head = 1
    /\ sent[1].type = "Terminated"
    /\ AllHandled
    /\ \A h \in Handlers : sigHeld[h]
    /\ kills = 1
    /\ requests = 3
    /\ health = "pending"

====
